---- MODULE Spec2Model ----
(***************************************************************************)
(* A model of buddy, a package-management front end for Bazel projects.    *)
(*                                                                         *)
(*   - the scaffolding commands `new` (src/main.rs, new_package) and       *)
(*     `init` (src/commands/init.rs, run) acting on a filesystem;          *)
(*   - the build orchestrator build/run/test (src/main.rs), a parent that  *)
(*     forwards the stderr pipe of a spawned child;                        *)
(*   - main's startup (bazelisk lookup, manifest load) and dispatch.       *)
(*                                                                         *)
(* Spec      the scaffolding commands, interleaved with edits by the user  *)
(* OrchSpec  one build/run/test invocation, parent and child interleaved   *)
(* LiveSpec  OrchSpec with weak fairness on the parent and on the child    *)
(***************************************************************************)
EXTENDS Integers, Sequences, FiniteSets, TLC

VARIABLES
    fs,         \* the filesystem: path -> [kind, data]
    hist,       \* the last two events (commands run, edits by the user)
    nCmds,      \* commands run so far
    nEdits,     \* edits by the user so far
    bazelisk,   \* whether `bazelisk` is on the search path
    op,         \* orchestrator: the operation invoked (build, run, test)
    targets,    \* orchestrator: the user's target list
    config,     \* orchestrator: the Config main loaded
    argv,       \* orchestrator: the arguments given to the child
    ppc,        \* parent's position
    cpc,        \* child's position
    cerr,       \* whether the child still holds its stderr open
    cexit,      \* the child's exit status (-1 while it runs)
    plan,       \* how many lines the child means to write to stderr
    nWritten,   \* lines the child has written or tried to write
    written,    \* the lines the child wrote into the pipe, in order
    pipe,       \* the lines in the stderr pipe, not yet read
    out,        \* the lines the parent printed
    bazelOut,   \* whether the directory `bazel-out` exists
    result      \* the outcome of the operation, and the process's exit status

scaffoldVars == <<fs, hist, nCmds, nEdits, bazelisk>>
orchVars == <<op, targets, config, argv, ppc, cpc, cerr, cexit, plan,
              nWritten, written, pipe, out, bazelOut, result>>
vars == <<fs, hist, nCmds, nEdits, bazelisk, op, targets, config, argv, ppc,
          cpc, cerr, cexit, plan, nWritten, written, pipe, out, bazelOut,
          result>>

----------------------------------------------------------------------------
(* Bounds of the model *)

\* commands run in one behaviour of Spec
MaxCmds == 2
\* edits by the user in one behaviour of Spec
MaxEdits == 2
\* targets on the command line of build, run, test
MaxTargets == 2
\* lines the child writes to its stderr
MaxLines == 2
\* lines the stderr pipe holds before a write blocks
PipeCap == 1

----------------------------------------------------------------------------
(* Paths and the filesystem *)

\* The current working directory, an absolute path as a sequence of segments.
Cwd == <<"work">>

\* The path arguments given on the command line.
PathArgs == {".", "proj"}

\* A relative argument resolved against the working directory (what
\* fs::canonicalize yields for an existing path, and where a relative
\* PathBuf points).
Resolve(arg) == IF arg = "." THEN Cwd ELSE Cwd \o <<arg>>

Dirs == {Resolve(a) : a \in PathArgs}

\* Names the two scaffolding commands touch below a package directory.
InitRel == {<<"Buddy.toml">>, <<"WORKSPACE">>, <<"src">>, <<"src", "main.cc">>,
            <<"test">>, <<"test", "test_main.cc">>}
NewRel == {<<"Buddy.toml">>, <<"WORKSPACE">>, <<"src">>, <<"test">>,
           <<"Buddy.lock">>, <<".bazelrc">>, <<"src", "BUILD">>,
           <<"src", "main.cc">>, <<"test", "BUILD">>,
           <<"test", "hello_test.cc">>}
Rel == InitRel \cup NewRel

Paths == Dirs \cup {d \o r : d \in Dirs, r \in Rel}

Parent(p) == SubSeq(p, 1, Len(p) - 1)

None == [kind |-> "none", data |-> <<>>]
Dir == [kind |-> "dir", data |-> <<>>]
File(data) == [kind |-> "file", data |-> data]

Exists(f, p) == f[p].kind # "none"
IsDir(f, p) == f[p].kind = "dir"
IsFile(f, p) == f[p].kind = "file"

\* The parent of p is a directory (the directory above Cwd always is).
ParentIsDir(f, p) == Parent(p) \notin Paths \/ IsDir(f, Parent(p))

\* p is below q, or q itself.
IsUnder(p, q) == Len(p) >= Len(q) /\ SubSeq(p, 1, Len(q)) = q

----------------------------------------------------------------------------
(* File contents.  A manifest is kept as the sequence of its TOML tokens,   *)
(* a source file as one piece.                                              *)

get_base_config(package_name) ==
    <<"[package]", "name", package_name, "version", "0.1.0", "edition", "2023",
      "[dependencies]", "bazel-toolchain", "0.8.0", "google-test", "1.13.0">>

get_main == <<"#include <ctime> ... int main(int argc, char** argv)">>

get_test == <<"#include <gtest/gtest.h> ... TEST(HelloTest, BasicAssertions)">>

\* What a user writes into a file.
UserText == <<"edited by the user">>

----------------------------------------------------------------------------
(* The plugin catalogue (main) *)

(* The texts new_package writes are sequences of pieces whose              *)
(* concatenation is the file's bytes: a newline is the piece "\n", a       *)
(* placeholder is a piece of its own, and no piece is empty.               *)

\* A raw string literal given by its lines (split at the newlines).
Unlines(lines) ==
    LET piece(i) == IF lines[i] = "" THEN <<>> ELSE <<lines[i]>>
        upto[i \in 0..Len(lines)] ==
            IF i = 0 THEN <<>>
            ELSE IF i = 1 THEN piece(1)
            ELSE upto[i - 1] \o <<"\n">> \o piece(i)
    IN  upto[Len(lines)]

\* A HashMap with two entries.
Map2(k1, v1, k2, v2) == (k1 :> v1) @@ (k2 :> v2)

\* The build_rule of the google-test plugin.
google_test_rule ==
    Unlines(<<"http_archive(",
      "  name = \"com_google_googletest\",",
      "  urls = [\"https://github.com/google/googletest/archive/5ab508a01f9eb089207ee87fd547d290da39d015.zip\"],",
      "  strip_prefix = \"googletest-5ab508a01f9eb089207ee87fd547d290da39d015\",",
      ")">>)

\* The build_rule of the bazel-toolchain plugin, with `field` at the two
\* places of its braces.
toolchain_rule(field) ==
    Unlines(<<"BAZEL_TOOLCHAIN_TAG = \"0.8.2\"",
      "BAZEL_TOOLCHAIN_SHA = \"0fc3a2b0c9c929920f4bed8f2b446a8274cad41f5ee823fd3faa0d7641f20db0\"",
      "",
      "http_archive(",
      "    name = \"com_grail_bazel_toolchain\",",
      "    sha256 = BAZEL_TOOLCHAIN_SHA,",
      "    strip_prefix = \"bazel-toolchain-">>)
    \o <<field>>
    \o Unlines(<<"\".format(tag = BAZEL_TOOLCHAIN_TAG),",
      "    canonical_id = BAZEL_TOOLCHAIN_TAG,",
      "    url = \"https://github.com/grailbio/bazel-toolchain/archive/refs/tags/">>)
    \o <<field>>
    \o Unlines(<<".tar.gz\".format(tag = BAZEL_TOOLCHAIN_TAG),",
      ")",
      "",
      "load(\"@com_grail_bazel_toolchain//toolchain:deps.bzl\", \"bazel_toolchain_dependencies\")",
      "",
      "bazel_toolchain_dependencies()",
      "",
      "load(\"@com_grail_bazel_toolchain//toolchain:rules.bzl\", \"llvm_toolchain\")",
      "",
      "llvm_toolchain(",
      "    name = \"llvm_toolchain\",",
      "    llvm_version = \"15.0.6\",",
      ")",
      "",
      "load(\"@llvm_toolchain//:toolchains.bzl\", \"llvm_register_toolchains\")",
      "",
      "llvm_register_toolchains()">>)

\* A variant of bazel_toolchain_rule: the rule written with the catalogue's
\* own placeholder, which new_package substitutes in plugins[0] only.
bazel_toolchain_rule_versioned == toolchain_rule("{version}")

\* The rule as main gives it: `{tag}` is a field of Starlark's str.format.
bazel_toolchain_rule == toolchain_rule("{tag}")

\* main's `plugins`, in declaration order.
Plugins ==
    << [name |-> "google-test",
        versions |-> Map2("1.13.0", "b796f7d44681514f58a683a3a71ff17c94edb0c1",
                          "1.12.1", "58d77fa8070e8cec2dc1ed015d66b454c8d78850"),
        build_rule |-> google_test_rule],
       [name |-> "bazel-toolchain",
        versions |-> Map2("0.8.2", "b796f7d44681514f58a683a3a71ff17c94edb0c1",
                          "1.12.1", "58d77fa8070e8cec2dc1ed015d66b454c8d78850"),
        build_rule |-> bazel_toolchain_rule] >>

\* str::replace: every occurrence of the piece `from` becomes `to`.
Replace(text, from, to) ==
    [i \in 1..Len(text) |-> IF text[i] = from THEN to ELSE text[i]]

\* The header ends with an empty line.
WorkspaceHeader ==
    Unlines(<<"# This file is automatically @generated by Buddy.",
      "# It is not intended for manual editing.",
      "load(\"@bazel_tools//tools/build_defs/repo:http.bzl\", \"http_archive\")",
      "", "">>)

\* What new_package writes into WORKSPACE: four writes, one after another.
new_workspace(plugins) ==
    WorkspaceHeader
    \o Replace(plugins[1].build_rule, "{version}", plugins[1].versions["1.13.0"])
    \o <<"\n">>
    \o plugins[2].build_rule

new_lock ==
    Unlines(<<"# This file is automatically @generated by Buddy.",
      "# It is not intended for manual editing.",
      "version = 1", "", "[[package]]", "name = \"google-test\"",
      "version = \"1.13.0\"", "source = \"https://github.com/google/googletest\"",
      "">>)

new_bazelrc ==
    <<"build --cxxopt=-std=c++17", "\n",
      "build --incompatible_enable_cc_toolchain_resolution">>

new_src_build(package_name) ==
    Unlines(<<"load(\"@rules_cc//cc:defs.bzl\", \"cc_binary\")", "", "cc_binary(",
      "    name = \"">>)
    \o <<package_name>>
    \o Unlines(<<"\",", "    srcs = [\"main.cc\"],", ")">>)

new_test_build ==
    Unlines(<<"cc_test(", "  name = \"hello_test\",", "  size = \"small\",",
      "  srcs = [\"hello_test.cc\"],",
      "  deps = [\"@com_google_googletest//:gtest_main\"],", ")">>)

----------------------------------------------------------------------------
(* Filesystem calls.  A step takes and yields s = [fs, ok, w]: the          *)
(* filesystem, whether every call so far succeeded, and the paths written   *)
(* so far.  Once a call has failed the later steps of the command do        *)
(* nothing.                                                                 *)

Start(f) == [fs |-> f, ok |-> TRUE, w |-> {}]

Fail(s) == [s EXCEPT !.ok = FALSE]

\* fs::create_dir: the path must not exist and its parent must.
create_dir(s, p) ==
    IF ~s.ok THEN s
    ELSE IF ~Exists(s.fs, p) /\ ParentIsDir(s.fs, p)
         THEN [fs |-> [s.fs EXCEPT ![p] = Dir], ok |-> TRUE, w |-> s.w \cup {p}]
         ELSE Fail(s)

\* fs::create_dir_all: creates the path and its missing ancestors; existing
\* directories are fine, a file in the way is an error.
Ancestors(p) == {SubSeq(p, 1, k) : k \in 1..Len(p)} \cap Paths

create_dir_all(s, p) ==
    LET missing == {q \in Ancestors(p) : ~Exists(s.fs, q)}
    IN  IF ~s.ok THEN s
        ELSE IF \E q \in Ancestors(p) : IsFile(s.fs, q) THEN Fail(s)
        ELSE [fs |-> [q \in Paths |-> IF q \in missing THEN Dir ELSE s.fs[q]],
              ok |-> TRUE, w |-> s.w \cup missing]

\* File::create followed by a write of `data`: creates or truncates; fails
\* when the parent is no directory or the path is a directory.
create_file(s, p, data) ==
    IF ~s.ok THEN s
    ELSE IF ParentIsDir(s.fs, p) /\ ~IsDir(s.fs, p)
         THEN [fs |-> [s.fs EXCEPT ![p] = File(data)], ok |-> TRUE,
               w |-> s.w \cup {p}]
         ELSE Fail(s)


\* fs::canonicalize: fails on a path that does not exist.
canonicalize(s, p) == IF s.ok /\ ~Exists(s.fs, p) THEN Fail(s) ELSE s

\* One call of a command: st = [call, path, data, unless], skipped when the
\* guard `unless` already holds of the path.
Call(call, path, data, unless) ==
    [call |-> call, path |-> path, data |-> data, unless |-> unless]

RunStep(s, st) ==
    IF ~s.ok THEN s
    ELSE IF st.unless = "is_dir" /\ IsDir(s.fs, st.path) THEN s
    ELSE IF st.unless = "is_file" /\ IsFile(s.fs, st.path) THEN s
    ELSE IF st.call = "canonicalize" THEN canonicalize(s, st.path)
    ELSE IF st.call = "create_dir" THEN create_dir(s, st.path)
    ELSE IF st.call = "create_dir_all" THEN create_dir_all(s, st.path)
    ELSE create_file(s, st.path, st.data)

\* The calls of a command in order, from the filesystem f.
RunSteps(s0, steps) ==
    LET after[i \in 0..Len(steps)] ==
            IF i = 0 THEN s0 ELSE RunStep(after[i - 1], steps[i])
    IN  after[Len(steps)]

----------------------------------------------------------------------------
(* `init` (src/commands/init.rs) *)

\* A canonical absolute path as text: "/" before every segment.
PathStr(p) == [i \in 1..(2 * Len(p)) |-> IF i % 2 = 1 THEN "/" ELSE p[i \div 2]]

\* str::rsplit_once: the text before and after the last occurrence of c.
rsplit_once(str, c) ==
    LET at == {i \in 1..Len(str) : str[i] = c}
        last == CHOOSE i \in at : \A j \in at : j <= i
    IN  IF at = {} THEN [some |-> FALSE, head |-> <<>>, tail |-> <<>>]
        ELSE [some |-> TRUE, head |-> SubSeq(str, 1, last - 1),
              tail |-> SubSeq(str, last + 1, Len(str))]

\* The package name: what follows the last '/' of the canonical path.
folder_name_from_path(str) ==
    LET tail == rsplit_once(str, "/").tail
    IN  IF tail = <<>> THEN "" ELSE tail[1]

\* A variant of the guard below: the manifest looked for at the target path.
already_a_package_at_path(f, path) == Exists(f, Resolve(path) \o <<"Buddy.toml">>)

\* The guard of run: is there a manifest in the working directory?  The
\* path given to run plays no part in it.
already_a_package(f, path) == Exists(f, Cwd \o <<"Buddy.toml">>)

\* A variant of the guard below: the skeleton created on every run.
workspace_absent_always(f, folder) == TRUE

\* The guard of the skeleton: no WORKSPACE marker at the target yet.
workspace_absent(f, folder) == ~Exists(f, folder \o <<"WORKSPACE">>)

\* The skeleton run creates behind the WORKSPACE guard, each part guarded.
init_skeleton(folder) ==
    << Call("create_file", folder \o <<"WORKSPACE">>, <<>>, "never"),
       Call("create_dir_all", folder \o <<"src">>, <<>>, "is_dir"),
       Call("create_file", folder \o <<"src", "main.cc">>, get_main, "is_file"),
       Call("create_dir_all", folder \o <<"test">>, <<>>, "is_dir"),
       Call("create_file", folder \o <<"test", "test_main.cc">>, get_test,
            "is_file") >>

\* What run does before the WORKSPACE guard: fs::canonicalize (which fails
\* on a path that does not exist), the directory, the manifest.
init_manifest(folder) ==
    << Call("canonicalize", folder, <<>>, "never"),
       Call("create_dir_all", folder, <<>>, "is_dir"),
       Call("create_file", folder \o <<"Buddy.toml">>,
            get_base_config(folder_name_from_path(PathStr(folder))), "never") >>

\* run(path), past its first guard.  Every failure is an unwrap: a panic.
init_scaffold(f, path) ==
    LET folder == Resolve(path)
        m == RunSteps(Start(f), init_manifest(folder))
        s == IF m.ok /\ workspace_absent(m.fs, folder)
             THEN RunSteps(m, init_skeleton(folder)) ELSE m
    IN  [fs |-> s.fs, w |-> s.w, res |-> IF s.ok THEN "Ok" ELSE "Panic",
         msg |-> IF s.ok THEN "Created" ELSE ""]

\* commands::init::run
init_run(f, path) ==
    IF already_a_package(f, path)
    THEN [fs |-> f, w |-> {}, res |-> "AlreadyAPackage", msg |-> ""]
    ELSE init_scaffold(f, path)

----------------------------------------------------------------------------
(* `new` (src/main.rs) *)

\* What new_package returns when the destination exists: it prints an
\* error line and returns Ok(()).
destination_exists(f) ==
    [fs |-> f, w |-> {}, res |-> "Ok", msg |-> "error: destination already exixts"]

\* The calls of new_package on a destination that does not exist.
new_skeleton(d, package_name, plugins) ==
    << Call("create_dir", d, <<>>, "never"),
       Call("create_dir", d \o <<"src">>, <<>>, "never"),
       Call("create_dir", d \o <<"test">>, <<>>, "never"),
       Call("create_file", d \o <<"WORKSPACE">>, new_workspace(plugins), "never"),
       Call("create_file", d \o <<"Buddy.toml">>, get_base_config(package_name),
            "never"),
       Call("create_file", d \o <<"Buddy.lock">>, new_lock, "never"),
       Call("create_file", d \o <<".bazelrc">>, new_bazelrc, "never"),
       Call("create_file", d \o <<"src", "BUILD">>, new_src_build(package_name),
            "never"),
       Call("create_file", d \o <<"src", "main.cc">>, get_main, "never"),
       Call("create_file", d \o <<"test", "BUILD">>, new_test_build, "never"),
       Call("create_file", d \o <<"test", "hello_test.cc">>, get_test, "never") >>

new_package(f, package_name, plugins) ==
    LET d == Resolve(package_name)
        s == RunSteps(Start(f), new_skeleton(d, package_name, plugins))
    IN  IF ~Exists(f, d)
        THEN [fs |-> s.fs, w |-> s.w, res |-> IF s.ok THEN "Ok" ELSE "Err",
              msg |-> "Created"]
        ELSE destination_exists(f)

----------------------------------------------------------------------------
(* main: startup and dispatch (src/main.rs) *)

\* Config::default()
DefaultConfig ==
    [ok |-> TRUE, name |-> "", version |-> "", edition |-> "", dependencies |-> {}]

\* The [dependencies] table of a manifest text: name/version pairs.
Dependencies(text) ==
    {<<text[i], text[i + 1]>> : i \in {j \in 9..(Len(text) - 1) : j % 2 = 1}}

\* toml::from_str::<Config>: a text with the package table (name, version,
\* edition) and the dependencies table; anything else is an error.
toml_from_str(text) ==
    IF /\ Len(text) >= 8
       /\ Len(text) % 2 = 0
       /\ text[1] = "[package]"
       /\ text[2] = "name"
       /\ text[4] = "version"
       /\ text[6] = "edition"
       /\ text[8] = "[dependencies]"
    THEN [ok |-> TRUE, name |-> text[3], version |-> text[5],
          edition |-> text[7], dependencies |-> Dependencies(text)]
    ELSE [DefaultConfig EXCEPT !.ok = FALSE]

\* A variant of load_config: the default also when the manifest does not
\* parse (unwrap_or_default in place of unwrap).
load_config_or_default(f) ==
    IF /\ IsFile(f, Cwd \o <<"Buddy.toml">>)
       /\ toml_from_str(f[Cwd \o <<"Buddy.toml">>].data).ok
    THEN toml_from_str(f[Cwd \o <<"Buddy.toml">>].data)
    ELSE DefaultConfig

\* main's load of ./Buddy.toml: the default when it cannot be read,
\* ok = FALSE (the unwrap panics) when it cannot be parsed.
load_config(f) ==
    IF IsFile(f, Cwd \o <<"Buddy.toml">>)
    THEN toml_from_str(f[Cwd \o <<"Buddy.toml">>].data)
    ELSE DefaultConfig

\* Whether main reaches its dispatch: `bazelisk` is found and the manifest,
\* if there is one, parses.  Otherwise main panics first.
Dispatches(f, b) == b /\ load_config(f).ok

\* main run with `new <path>` or `init <path>`: the event it leaves.
main_scaffold(f, b, cmd, path) ==
    LET r == IF cmd = "new" THEN new_package(f, path, Plugins)
             ELSE init_run(f, path)
    IN  IF ~Dispatches(f, b)
        THEN [cmd |-> cmd, arg |-> path, res |-> "StartupPanic", msg |-> "",
              exit |-> 101, w |-> {}, before |-> f, after |-> f]
        ELSE [cmd |-> cmd, arg |-> path, res |-> r.res, msg |-> r.msg,
              exit |-> IF r.res \in {"Ok", "AlreadyAPackage"} THEN 0 ELSE 101,
              w |-> r.w, before |-> f, after |-> r.fs]

----------------------------------------------------------------------------
(* Spec: the scaffolding commands and the user's edits *)

\* The last two events.
Push(h, e) == IF Len(h) < 2 THEN Append(h, e) ELSE <<h[2], e>>

Edit(f) ==
    [cmd |-> "edit", arg |-> "", res |-> "", msg |-> "", exit |-> 0, w |-> {},
     before |-> f, after |-> f]

\* The paths a user edits between commands: the project directory, and in
\* each directory the manifest, the marker, src and its source file (test
\* and its source file are treated by the commands as src is).
EditRel == {<<"Buddy.toml">>, <<"WORKSPACE">>, <<"src">>, <<"src", "main.cc">>}
Editable == (Dirs \ {Cwd}) \cup {d \o r : d \in Dirs, r \in EditRel}

EmptyFs == [p \in Paths |-> IF p = Cwd THEN Dir ELSE None]

\* The orchestrator at rest.
OrchIdle ==
    /\ op = "build"
    /\ targets = <<>>
    /\ config = DefaultConfig
    /\ argv = <<>>
    /\ ppc = "idle"
    /\ cpc = "idle"
    /\ cerr = FALSE
    /\ cexit = -1
    /\ plan = 0
    /\ nWritten = 0
    /\ written = <<>>
    /\ pipe = <<>>
    /\ out = <<>>
    /\ bazelOut = FALSE
    /\ result = [res |-> "", exit |-> -1]

Init ==
    /\ \E proj \in {None, Dir}, toml \in {None, File(get_base_config("work"))} :
          fs = [EmptyFs EXCEPT ![Cwd \o <<"proj">>] = proj,
                               ![Cwd \o <<"Buddy.toml">>] = toml]
    /\ hist = <<>>
    /\ nCmds = 0
    /\ nEdits = 0
    /\ bazelisk \in BOOLEAN
    /\ OrchIdle

\* The command line `buddy new <path>`.
RunNew(path) ==
    /\ nCmds < MaxCmds
    /\ LET e == main_scaffold(fs, bazelisk, "new", path)
       IN  /\ fs' = e.after
           /\ hist' = Push(hist, e)
    /\ nCmds' = nCmds + 1
    /\ UNCHANGED <<nEdits, bazelisk>>
    /\ UNCHANGED orchVars

\* The command line `buddy init [path]`.
RunInit(path) ==
    /\ nCmds < MaxCmds
    /\ LET e == main_scaffold(fs, bazelisk, "init", path)
       IN  /\ fs' = e.after
           /\ hist' = Push(hist, e)
    /\ nCmds' = nCmds + 1
    /\ UNCHANGED <<nEdits, bazelisk>>
    /\ UNCHANGED orchVars

\* The user writes a file.
UserWrite(p) ==
    /\ nEdits < MaxEdits
    /\ ParentIsDir(fs, p)
    /\ ~IsDir(fs, p)
    /\ fs' = [fs EXCEPT ![p] = File(UserText)]
    /\ hist' = Push(hist, Edit(fs))
    /\ nEdits' = nEdits + 1
    /\ UNCHANGED <<nCmds, bazelisk>>
    /\ UNCHANGED orchVars

\* The user makes a directory.
UserMkdir(p) ==
    /\ nEdits < MaxEdits
    /\ ParentIsDir(fs, p)
    /\ ~Exists(fs, p)
    /\ fs' = [fs EXCEPT ![p] = Dir]
    /\ hist' = Push(hist, Edit(fs))
    /\ nEdits' = nEdits + 1
    /\ UNCHANGED <<nCmds, bazelisk>>
    /\ UNCHANGED orchVars

\* The user removes a file, or a directory with all below it.
UserRemove(p) ==
    /\ nEdits < MaxEdits
    /\ Exists(fs, p)
    /\ fs' = [q \in Paths |-> IF IsUnder(q, p) THEN None ELSE fs[q]]
    /\ hist' = Push(hist, Edit(fs))
    /\ nEdits' = nEdits + 1
    /\ UNCHANGED <<nCmds, bazelisk>>
    /\ UNCHANGED orchVars

Next ==
    \/ \E path \in PathArgs : RunNew(path)
    \/ \E path \in PathArgs : RunInit(path)
    \/ \E p \in Editable : UserWrite(p)
    \/ \E p \in Editable : UserMkdir(p)
    \/ \E p \in Editable : UserRemove(p)

Spec == Init /\ [][Next]_vars

----------------------------------------------------------------------------
(* The build orchestrator: build, run, test (src/main.rs) *)

Ops == {"build", "run", "test"}

\* Targets a user names on the command line.
TargetNames == {"//app", "//lib"}

\* The sequences over S of length at most n.
SeqsUpTo(S, n) == UNION {[1..k -> S] : k \in 0..n}

\* Lines the child writes to stderr (ASCII text, one character per element).
Lines ==
    { <<"I", "N", "F", "O", ":", " ", "o", "k">>,
      <<"I", "N", "F", "O", ":">>,
      <<"I", "N", "F", "O", ":", "x">>,
      <<"W", "A", "R", "N">> }

\* The target given when the user names none.
default_target(o, cfg) ==
    IF o = "build" THEN "//src/..."
    ELSE IF o = "run" THEN "//src:" \o cfg.name
    ELSE "//test/..."

\* A variant of the operator below: the default added to the user's targets.
target_args_with_default(o, args, cfg) == Append(args, default_target(o, cfg))

\* The arguments after the options: the user's targets, or the default.
target_args(o, args, cfg) ==
    IF Len(args) # 0 THEN args ELSE <<default_target(o, cfg)>>

\* The arguments build, run and test give to bazelisk.
command_args(o, args, cfg) ==
    (IF o = "test" THEN <<"test", "--test_output=all">> ELSE <<o>>)
    \o <<"--symlink_prefix=target/">>
    \o target_args(o, args, cfg)

\* str::starts_with
starts_with(line, prefix) ==
    Len(line) >= Len(prefix) /\ SubSeq(line, 1, Len(prefix)) = prefix

INFO == <<"I", "N", "F", "O", ":">>

\* "INFO:".green(): the prefix as one coloured token.
GreenINFO == "\\e[32mINFO:\\e[0m"

\* str::split_at(mid) panics when mid is past the end of the line.
split_at_panics(line, mid) == mid > Len(line)

\* The second half of str::split_at(mid).
split_at_tail(line, mid) == SubSeq(line, mid + 1, Len(line))

\* What the loop prints for an INFO line: "{} {}" of the green prefix and
\* the line from its seventh byte on.
print_info(line) == <<GreenINFO, " ">> \o split_at_tail(line, 6)

\* The loop's end of file: the pipe is drained and no writer holds it.
at_eof == pipe = <<>> /\ ~cerr

\* A variant of the operator below: the parent waits for the child to exit
\* before it reads.
can_read_after_exit == pipe # <<>> /\ cpc = "exited"

\* May the parent take a line from the pipe?  It reads while the child runs.
can_read == pipe # <<>>

\* A manifest a user wrote without its [dependencies] section.
manifest_without_dependencies(package_name) ==
    SubSeq(get_base_config(package_name), 1, 7)

\* What the working directory holds under the name Buddy.toml when an
\* operation is invoked: nothing, a manifest, a manifest lacking a section,
\* a file that is no TOML, or a directory.
Manifests ==
    {None, File(get_base_config("demo")),
     File(manifest_without_dependencies("demo")), File(UserText), Dir}

\* `config` before main has loaded it.
NotLoaded == [DefaultConfig EXCEPT !.ok = FALSE]

\* The command line is `buddy build|run|test [targets]`; main has not run.
OrchInit ==
    /\ op \in Ops
    /\ targets \in SeqsUpTo(TargetNames, MaxTargets)
    /\ \E toml \in Manifests :
          fs = [EmptyFs EXCEPT ![Cwd \o <<"Buddy.toml">>] = toml]
    /\ bazelisk \in BOOLEAN
    /\ config = NotLoaded
    /\ plan \in 0..MaxLines
    /\ argv = <<>>
    /\ ppc = "main"
    /\ cpc = "idle"
    /\ cerr = FALSE
    /\ cexit = -1
    /\ nWritten = 0
    /\ written = <<>>
    /\ pipe = <<>>
    /\ out = <<>>
    /\ bazelOut \in BOOLEAN
    /\ result = [res |-> "", exit |-> -1]
    /\ hist = <<>>
    /\ nCmds = 0
    /\ nEdits = 0

\* main up to its match on the command: it panics when bazelisk is not
\* found or the manifest does not parse, and otherwise holds the loaded
\* config and dispatches.
MainStartup ==
    /\ ppc = "main"
    /\ IF Dispatches(fs, bazelisk)
       THEN /\ config' = load_config(fs)
            /\ ppc' = "start"
            /\ UNCHANGED result
       ELSE /\ ppc' = "aborted"
            /\ result' = [res |-> "StartupPanic", exit |-> 101]
            /\ UNCHANGED config
    /\ UNCHANGED <<op, targets, argv, cpc, cerr, cexit, plan, nWritten, written,
                   pipe, out, bazelOut>>
    /\ UNCHANGED scaffoldVars

\* The parent builds the command and spawns the child with stderr piped.
Spawn ==
    /\ ppc = "start"
    /\ argv' = command_args(op, targets, config)
    /\ ppc' = "read"
    /\ cpc' = "running"
    /\ cerr' = TRUE
    /\ UNCHANGED <<op, targets, config, cexit, plan, nWritten, written, pipe,
                   out, bazelOut, result>>
    /\ UNCHANGED scaffoldVars

\* One turn of the loop over reader.lines(): a line is taken and printed,
\* or split_at panics.
ParentRead ==
    /\ ppc = "read"
    /\ can_read
    /\ pipe' = Tail(pipe)
    /\ LET line == Head(pipe)
       IN  IF ~starts_with(line, INFO)
           THEN /\ out' = Append(out, line)
                /\ UNCHANGED <<ppc, result>>
           ELSE IF split_at_panics(line, 6)
           THEN /\ ppc' = "panicked"
                /\ result' = [res |-> "Panic", exit |-> 101]
                /\ UNCHANGED out
           ELSE /\ out' = Append(out, print_info(line))
                /\ UNCHANGED <<ppc, result>>
    /\ UNCHANGED <<op, targets, config, argv, cpc, cerr, cexit, plan, nWritten,
                   written, bazelOut>>
    /\ UNCHANGED scaffoldVars

\* The loop ends at end of file.
ParentEof ==
    /\ ppc = "read"
    /\ at_eof
    /\ ppc' = "cleanup"
    /\ UNCHANGED <<op, targets, config, argv, cpc, cerr, cexit, plan, nWritten,
                   written, pipe, out, bazelOut, result>>
    /\ UNCHANGED scaffoldVars

\* bazel-out is removed if it exists, and the operation returns Ok(()).
ParentCleanup ==
    /\ ppc = "cleanup"
    /\ bazelOut' = FALSE
    /\ ppc' = "returned"
    /\ result' = [res |-> "Ok", exit |-> 0]
    /\ UNCHANGED <<op, targets, config, argv, cpc, cerr, cexit, plan, nWritten,
                   written, pipe, out>>
    /\ UNCHANGED scaffoldVars

\* The child writes a line; the write blocks while the pipe is full.
ChildWrite(line) ==
    /\ cpc = "running"
    /\ cerr
    /\ ppc = "read"
    /\ nWritten < plan
    /\ Len(pipe) < PipeCap
    /\ pipe' = Append(pipe, line)
    /\ written' = Append(written, line)
    /\ nWritten' = nWritten + 1
    /\ UNCHANGED <<op, targets, config, argv, ppc, cpc, cerr, cexit, plan, out,
                   bazelOut, result>>
    /\ UNCHANGED scaffoldVars

\* The child writes after the parent has dropped the reader: the write
\* fails (EPIPE), or the child is killed by SIGPIPE.
ChildWriteBroken ==
    /\ cpc = "running"
    /\ cerr
    /\ ppc = "panicked"
    /\ nWritten < plan
    /\ \/ /\ nWritten' = nWritten + 1
          /\ UNCHANGED <<cpc, cerr, cexit>>
       \/ /\ cpc' = "exited"
          /\ cerr' = FALSE
          /\ cexit' = 141
          /\ UNCHANGED nWritten
    /\ UNCHANGED <<op, targets, config, argv, ppc, plan, written, pipe, out,
                   bazelOut, result>>
    /\ UNCHANGED scaffoldVars

\* The child (bazel) creates the directory bazel-out.
ChildMakesBazelOut ==
    /\ cpc = "running"
    /\ ~bazelOut
    /\ bazelOut' = TRUE
    /\ UNCHANGED <<op, targets, config, argv, ppc, cpc, cerr, cexit, plan,
                   nWritten, written, pipe, out, result>>
    /\ UNCHANGED scaffoldVars

\* The child closes its stderr and goes on running.
ChildClosesStderr ==
    /\ cpc = "running"
    /\ cerr
    /\ nWritten = plan
    /\ cerr' = FALSE
    /\ UNCHANGED <<op, targets, config, argv, ppc, cpc, cexit, plan, nWritten,
                   written, pipe, out, bazelOut, result>>
    /\ UNCHANGED scaffoldVars

\* The child exits, with success or failure.
ChildExit(code) ==
    /\ cpc = "running"
    /\ nWritten = plan
    /\ cpc' = "exited"
    /\ cerr' = FALSE
    /\ cexit' = code
    /\ UNCHANGED <<op, targets, config, argv, ppc, plan, nWritten, written,
                   pipe, out, bazelOut, result>>
    /\ UNCHANGED scaffoldVars

ParentStep == MainStartup \/ Spawn \/ ParentRead \/ ParentEof \/ ParentCleanup

ChildProgress ==
    \/ \E line \in Lines : ChildWrite(line)
    \/ ChildWriteBroken
    \/ \E code \in {0, 1} : ChildExit(code)

OrchNext ==
    \/ MainStartup
    \/ Spawn
    \/ ParentRead
    \/ ParentEof
    \/ ParentCleanup
    \/ \E line \in Lines : ChildWrite(line)
    \/ ChildWriteBroken
    \/ ChildMakesBazelOut
    \/ ChildClosesStderr
    \/ \E code \in {0, 1} : ChildExit(code)

OrchSpec == OrchInit /\ [][OrchNext]_vars

\* The parent runs whenever it can, and so does the child: a spawned
\* process is scheduled, and a blocked write resumes once there is room.
LiveSpec == OrchInit /\ [][OrchNext]_vars /\ WF_vars(ParentStep) /\ WF_vars(ChildProgress)

----------------------------------------------------------------------------
(* Vocabulary of the properties *)

\* The events in the window.
Events == {hist[i] : i \in DOMAIN hist}

\* The runs of `init` and of `new` that main dispatched.
InitRuns == {e \in Events : e.cmd = "init" /\ e.res # "StartupPanic"}
NewRuns == {e \in Events : e.cmd = "new" /\ e.res # "StartupPanic"}

\* d is an existing directory with nothing in it.
Fresh(f, d) ==
    IsDir(f, d) /\ \A p \in Paths : (p # d /\ IsUnder(p, d)) => ~Exists(f, p)

\* The working directory holds a manifest.
CwdIsPackage(f) == Exists(f, Cwd \o <<"Buddy.toml">>)

\* The manifest `init` writes at directory d, as main's parser reads it.
InitManifest(d) ==
    [ok |-> TRUE, name |-> d[Len(d)], version |-> "0.1.0", edition |-> "2023",
     dependencies |-> {<<"bazel-toolchain", "0.8.0">>, <<"google-test", "1.13.0">>}]

HasManifest(f, d) ==
    /\ IsFile(f, d \o <<"Buddy.toml">>)
    /\ toml_from_str(f[d \o <<"Buddy.toml">>].data) = InitManifest(d)

\* The skeleton of `init` is at directory d.
HasInitSkeleton(f, d) ==
    /\ HasManifest(f, d)
    /\ IsFile(f, d \o <<"WORKSPACE">>)
    /\ IsDir(f, d \o <<"src">>)
    /\ IsFile(f, d \o <<"src", "main.cc">>)
    /\ IsDir(f, d \o <<"test">>)
    /\ IsFile(f, d \o <<"test", "test_main.cc">>)

\* Event e changed nothing.
NoWrites(e) == e.w = {} /\ e.after = e.before

\* Event e succeeded, rewrote the manifest at d and changed nothing else.
RewroteOnlyManifest(e, d) ==
    /\ e.res = "Ok"
    /\ e.w = {d \o <<"Buddy.toml">>}
    /\ HasManifest(e.after, d)
    /\ \A p \in Paths \ {d \o <<"Buddy.toml">>} : e.after[p] = e.before[p]

\* The window holds two runs of `init` in succession on the same path, the
\* first from a fresh directory, in a working directory that was no package.
TwiceOnFresh ==
    /\ Len(hist) = 2
    /\ hist[1] \in InitRuns
    /\ hist[2] \in InitRuns
    /\ hist[1].arg = hist[2].arg
    /\ Fresh(hist[1].before, Resolve(hist[1].arg))
    /\ ~CwdIsPackage(hist[1].before)

----------------------------------------------------------------------------
(* C1 *)

\* C1 as stated: whenever `init` is run twice in succession on a fresh
\* target directory, the working directory included, the first run creates
\* Buddy.toml, WORKSPACE, src/, src/main.cc, test/ and test/test_main.cc, and
\* the second run succeeds, rewrites Buddy.toml and leaves every other file
\* unchanged.
C1_TwiceAsStated ==
    TwiceOnFresh =>
        /\ hist[1].res = "Ok"
        /\ HasInitSkeleton(hist[1].after, Resolve(hist[1].arg))
        /\ RewroteOnlyManifest(hist[2], Resolve(hist[2].arg))

\* C1 amended: the first run creates the six entries; when the target is
\* not the working directory the second run succeeds, rewrites Buddy.toml
\* and leaves every other file unchanged; when the target is the working
\* directory the second run fails with AlreadyAPackage and writes nothing.
C1_TwiceAmended ==
    TwiceOnFresh =>
        /\ hist[1].res = "Ok"
        /\ HasInitSkeleton(hist[1].after, Resolve(hist[1].arg))
        /\ IF Resolve(hist[2].arg) # Cwd
           THEN RewroteOnlyManifest(hist[2], Resolve(hist[2].arg))
           ELSE hist[2].res = "AlreadyAPackage" /\ NoWrites(hist[2])

\* Two runs on the fresh directory proj have happened, and both succeeded.
C1_Witness ==
    /\ TwiceOnFresh
    /\ hist[2].arg = "proj"
    /\ hist[1].res = "Ok"
    /\ hist[2].res = "Ok"

----------------------------------------------------------------------------
(* C2 *)

\* C2: `new <path>` on a path that exists fails with an error outcome, not
\* a success result, and writes nothing.
C2_NewOnExistingFails ==
    \A e \in NewRuns :
        Exists(e.before, Resolve(e.arg)) => (e.res # "Ok" /\ NoWrites(e))

----------------------------------------------------------------------------
(* C6 *)

\* C6: `init` on a directory that holds a WORKSPACE marker creates none of
\* src/, src/main.cc, test/, test/test_main.cc; the only path it writes is
\* Buddy.toml, and WORKSPACE keeps its content.
C6_MarkerSkipsSkeleton ==
    \A e \in InitRuns :
        LET d == Resolve(e.arg)
        IN  (IsDir(e.before, d) /\ Exists(e.before, d \o <<"WORKSPACE">>)) =>
                /\ e.w \subseteq {d \o <<"Buddy.toml">>}
                /\ \A p \in Paths \ {d \o <<"Buddy.toml">>} :
                       e.after[p] = e.before[p]

\* `init` succeeded on a directory that held a user's WORKSPACE and no src
\* or test: it wrote the manifest, and src and test are still absent.
C6_Witness ==
    \E e \in InitRuns :
        LET d == Resolve(e.arg)
        IN  /\ e.res = "Ok"
            /\ e.before[d \o <<"WORKSPACE">>] = File(UserText)
            /\ ~Exists(e.before, d \o <<"src">>)
            /\ ~Exists(e.before, d \o <<"test">>)
            /\ e.w = {d \o <<"Buddy.toml">>}
            /\ ~Exists(e.after, d \o <<"src">>)
            /\ ~Exists(e.after, d \o <<"test">>)

----------------------------------------------------------------------------
(* C7 *)

\* C7: `init <path>` fails with AlreadyAPackage exactly when Buddy.toml
\* exists in the working directory, whatever the path, and then it writes
\* nothing.
C7_AlreadyAPackage ==
    \A e \in InitRuns :
        /\ (e.res = "AlreadyAPackage") <=> CwdIsPackage(e.before)
        /\ (e.res = "AlreadyAPackage") => NoWrites(e)

\* `init proj` failed with AlreadyAPackage in a package whose directory
\* proj did not exist, and proj still does not exist.
C7_Witness ==
    \E e \in InitRuns :
        /\ e.arg = "proj"
        /\ e.res = "AlreadyAPackage"
        /\ ~Exists(e.before, Resolve("proj"))
        /\ ~Exists(e.after, Resolve("proj"))

----------------------------------------------------------------------------
(* C8 *)

\* C8: where the working directory is no package, `init <path>` returns Ok
\* on a path that is an empty directory or does not exist, and leaves there
\* the manifest named after the last segment of the path, WORKSPACE, src/
\* and test/.
C8_InitReturnsOk ==
    \A e \in InitRuns :
        LET d == Resolve(e.arg)
        IN  (~CwdIsPackage(e.before) /\ (Fresh(e.before, d) \/ ~Exists(e.before, d)))
            =>  /\ e.res = "Ok"
                /\ HasManifest(e.after, d)
                /\ IsFile(e.after, d \o <<"WORKSPACE">>)
                /\ IsDir(e.after, d \o <<"src">>)
                /\ IsDir(e.after, d \o <<"test">>)

----------------------------------------------------------------------------
(* Vocabulary of the orchestrator's properties *)

ParentEnded == ppc \in {"returned", "panicked"}

ChildEnded == cpc = "exited"

\* main panicked before it dispatched the operation.
Aborted == ppc = "aborted"

\* The arguments after the option --symlink_prefix.
AfterPrefix(args) ==
    LET at == {i \in 1..Len(args) : args[i] = "--symlink_prefix=target/"}
    IN  IF at = {} THEN <<"no --symlink_prefix">>
        ELSE SubSeq(args, (CHOOSE i \in at : \A j \in at : i <= j) + 1, Len(args))

\* The documented default of each operation.
DocumentedDefault ==
    IF op = "build" THEN "//src/..."
    ELSE IF op = "test" THEN "//test/..."
    ELSE "//src:" \o config.name

\* What the claim has the parent print for a line of the child.
Forwarded(line) ==
    IF starts_with(line, INFO)
    THEN <<GreenINFO>> \o SubSeq(line, Len(INFO) + 1, Len(line))
    ELSE line

\* A line on which split_at(6) panics.
PanicLine(line) == starts_with(line, INFO) /\ Len(line) < 6

----------------------------------------------------------------------------
(* C3 *)

\* C3: once a build, run or test invocation has ended (the parent and the
\* child both), bazel-out does not exist, whatever the child's exit status
\* and whatever lines it wrote.
C3_BazelOutGone == (ParentEnded /\ ChildEnded) => ~bazelOut

----------------------------------------------------------------------------
(* C4 *)

\* C4: the operation's outcome is the child's: success when the child
\* exited with zero, failure with the child's status when it did not.
C4_ExitPropagated ==
    (ppc = "returned" /\ ChildEnded) =>
        /\ (result.res = "Ok") <=> (cexit = 0)
        /\ result.exit = cexit

----------------------------------------------------------------------------
(* C5 *)

\* C5: parent and child never deadlock: once main has dispatched the
\* operation, whatever the child writes, also more lines than the pipe
\* holds, the child exits and the operation ends; and it ends by returning
\* unless split_at panicked on a line.
C5_NoDeadlock ==
    /\ <>(Aborted \/ (ParentEnded /\ ChildEnded))
    /\ [](ppc = "panicked" => \E i \in 1..Len(written) : PanicLine(written[i]))

\* The child wrote more lines than the pipe holds, all were forwarded, and
\* both have ended.
C5_Witness ==
    /\ plan > PipeCap
    /\ Len(written) = plan
    /\ Len(out) = plan
    /\ ppc = "returned"
    /\ ChildEnded

----------------------------------------------------------------------------
(* C9 *)

\* C9: after the subcommand and the option --symlink_prefix come exactly
\* the documented default when the user names no target, and exactly the
\* user's targets in order, without the default, when the user names some.
C9_TargetArgs ==
    argv # <<>> =>
        /\ argv[1] = op
        /\ AfterPrefix(argv) =
               IF targets = <<>> THEN <<DocumentedDefault>> ELSE targets

\* `run` without targets in the package demo was given //src:demo.
C9_Witness ==
    /\ op = "run"
    /\ targets = <<>>
    /\ argv = <<"run", "--symlink_prefix=target/", "//src:demo">>

----------------------------------------------------------------------------
(* C10 *)

\* C10: every line the child wrote is forwarded once and in order: an INFO
\* line as the green prefix followed by the rest of the line, every other
\* line unchanged; nothing is left out when the invocation has ended.
C10_LinesForwarded ==
    /\ Len(out) <= Len(written)
    /\ \A i \in 1..Len(out) : out[i] = Forwarded(written[i])
    /\ (ParentEnded /\ ChildEnded) => Len(out) = Len(written)

----------------------------------------------------------------------------
(* The catalogue and what `new` writes *)

\* The catalogue has a plugin of this name.
Catalogued(name) == \E i \in DOMAIN Plugins : Plugins[i].name = name

\* The catalogue's plugin of this name lists this version.
Listed(name, version) ==
    \E i \in DOMAIN Plugins :
        Plugins[i].name = name /\ version \in DOMAIN Plugins[i].versions

\* The catalogue's plugin of this name.
PluginNamed(name) ==
    Plugins[CHOOSE i \in DOMAIN Plugins : Plugins[i].name = name]

\* The places at which `part` lies in `text`, piece for piece.
Occurrences(text, part) ==
    {i \in 1..(Len(text) - Len(part) + 1) :
        SubSeq(text, i, i + Len(part) - 1) = part}

\* The runs of `new` that made their destination.
NewCreated ==
    {e \in NewRuns : ~Exists(e.before, Resolve(e.arg)) /\ e.res = "Ok"}

\* The runs of `new` on a destination that did not exist.
NewOnAbsent == {e \in NewRuns : ~Exists(e.before, Resolve(e.arg))}

\* The dependencies declared by the manifest at directory d.
Declared(f, d) ==
    IF IsFile(f, d \o <<"Buddy.toml">>)
    THEN toml_from_str(f[d \o <<"Buddy.toml">>].data).dependencies
    ELSE {}

\* The text of WORKSPACE at directory d.
WorkspaceAt(f, d) == f[d \o <<"WORKSPACE">>].data

\* C11: a dependency is resolved by exact match on name and on version.
\* For every run of `new` on an absent destination and every dependency of
\* the manifest that `new` declares: a name outside the catalogue ends the
\* run with UnknownDependency, a version the plugin does not list ends it
\* with UnsupportedVersion, and only a listed name and version put the
\* plugin's rule into WORKSPACE and let the run succeed.
C11_ResolvedByNameAndVersion ==
    \A e \in NewOnAbsent :
        \A dep \in Dependencies(get_base_config(e.arg)) :
            /\ ~Catalogued(dep[1]) => e.res = "UnknownDependency"
            /\ (Catalogued(dep[1]) /\ ~Listed(dep[1], dep[2]))
                   => e.res = "UnsupportedVersion"
            /\ Listed(dep[1], dep[2])
                   => (e.res = "Ok" =>
                         Occurrences(WorkspaceAt(e.after, Resolve(e.arg)),
                                     PluginNamed(dep[1]).build_rule) # {})

\* The pieces in braces that the spec calls placeholders.
Placeholders == {"{version}", "{tag}"}

\* The pieces of a text.
Pieces(text) == {text[i] : i \in DOMAIN text}

\* C12 as stated: substitution is total.  After every run of `new` that
\* made its destination, WORKSPACE holds no piece in braces, neither
\* `{version}` nor `{tag}`.
C12_NoPlaceholderLeft ==
    \A e \in NewCreated :
        Pieces(WorkspaceAt(e.after, Resolve(e.arg))) \cap Placeholders = {}

\* C12 amended: after every run of `new` that made its destination,
\* WORKSPACE holds no `{version}`; the bazel-toolchain rule is in it as the
\* catalogue gives it, with both of its `{tag}` fields, and the file holds
\* no other `{tag}`.
C12_NoVersionLeft ==
    \A e \in NewCreated :
        LET ws == WorkspaceAt(e.after, Resolve(e.arg))
        IN  /\ "{version}" \notin Pieces(ws)
            /\ Occurrences(ws, Plugins[2].build_rule) # {}
            /\ Cardinality({i \in DOMAIN ws : ws[i] = "{tag}"}) = 2

\* A run of `new` made its destination and wrote WORKSPACE with the `{tag}`
\* fields in it.
C12_Witness ==
    \E e \in NewCreated :
        /\ Resolve(e.arg) \o <<"WORKSPACE">> \in e.w
        /\ "{tag}" \in Pieces(WorkspaceAt(e.after, Resolve(e.arg)))

\* The pieces of `text` from place i up to, and without, place j.
Between(text, i, j) == SubSeq(text, i, j - 1)

\* C13: after every run of `new` that made its destination, WORKSPACE is
\* the header, then the rule of every plugin of the catalogue in the
\* catalogue's order (google-test before bazel-toolchain), and between the
\* end of one rule and the start of the next there is exactly one blank
\* line, that is two newlines.
C13_RulesInOrderOneBlankLine ==
    \A e \in NewCreated :
        LET ws == WorkspaceAt(e.after, Resolve(e.arg))
            r1 == Plugins[1].build_rule
            r2 == Plugins[2].build_rule
            i == Len(WorkspaceHeader) + 1
        IN  /\ SubSeq(ws, 1, Len(WorkspaceHeader)) = WorkspaceHeader
            /\ i \in Occurrences(ws, r1)
            /\ \E j \in Occurrences(ws, r2) :
                  /\ j + Len(r2) - 1 = Len(ws)
                  /\ Between(ws, i + Len(r1), j) = <<"\n", "\n">>

\* The runs of `new` and `init`, dispatched or not.
ScaffoldRuns == {e \in Events : e.cmd \in {"new", "init"}}

\* C14: `new` and `init` do not need bazelisk.  Every run of `new` or
\* `init` with no bazelisk installed, in a working directory whose
\* manifest (if any) loads, is dispatched and leaves the files that the
\* same run leaves with bazelisk installed.
C14_ScaffoldWithoutBazelisk ==
    \A e \in ScaffoldRuns :
        (~bazelisk /\ load_config(e.before).ok)
            => /\ e.res # "StartupPanic"
               /\ e.after = main_scaffold(e.before, TRUE, e.cmd, e.arg).after

----------------------------------------------------------------------------
(* C15 *)

\* The working directory has no manifest file to read.
ManifestMissing == ~IsFile(fs, Cwd \o <<"Buddy.toml">>)

\* The working directory has a manifest file that does not parse.
ManifestMalformed ==
    /\ IsFile(fs, Cwd \o <<"Buddy.toml">>)
    /\ ~toml_from_str(fs[Cwd \o <<"Buddy.toml">>].data).ok

----------------------------------------------------------------------------
(* C16 *)

\* C16: the operation removes bazel-out and returns only after the child
\* has terminated: in every state in which the parent has done its cleanup
\* and returned, the child has exited.
C16_CleanupAfterChildExit == ppc = "returned" => ChildEnded

----------------------------------------------------------------------------
(* C17, C18 *)

\* The runs of `new` and `init` that succeeded and wrote a manifest.
ManifestWritten ==
    {e \in ScaffoldRuns :
        e.res = "Ok" /\ Resolve(e.arg) \o <<"Buddy.toml">> \in e.w}

\* C17: every dependency declared by a manifest that `new` or `init` has
\* written is resolvable: its name is in the catalogue and its version is a
\* key of that plugin's versions.
C17_DeclaredAreListed ==
    \A e \in ManifestWritten :
        \A dep \in Declared(e.after, Resolve(e.arg)) : Listed(dep[1], dep[2])

\* C18: a marker made by `init` comes with the skeleton.  After every run
\* of `init`, also one that aborted, on a directory that had no WORKSPACE:
\* if the directory now has WORKSPACE, it has src, src/main.cc, test and
\* test/test_main.cc.
C18_MarkerImpliesSkeleton ==
    \A e \in InitRuns :
        LET d == Resolve(e.arg)
        IN  (~Exists(e.before, d \o <<"WORKSPACE">>)
                /\ Exists(e.after, d \o <<"WORKSPACE">>))
            => /\ IsDir(e.after, d \o <<"src">>)
               /\ IsFile(e.after, d \o <<"src", "main.cc">>)
               /\ IsDir(e.after, d \o <<"test">>)
               /\ IsFile(e.after, d \o <<"test", "test_main.cc">>)

====
